---- MODULE Spec2Model ----
(***************************************************************************)
(* Model of langchain_agent.py: the MachineID register -> validate gate in *)
(* front of the LangChain workload.  One run of main() is one behaviour;   *)
(* the remote authority is a black box that may answer each request with   *)
(* any response (or none at all).                                          *)
(***************************************************************************)
EXTENDS Integers, Sequences, FiniteSets, TLC

VARIABLES
    pc,          \* position of main()
    exit_code,   \* process exit status once pc = "done", -1 before
    org_env,     \* os.environ["MACHINEID_ORG_KEY"], raw
    dev_env,     \* os.environ["MACHINEID_DEVICE_ID"], raw
    org_key,     \* main's local org_key
    device_id,   \* main's local device_id
    regResp,     \* HTTP response received for the register request
    reg,         \* main's local reg (dict returned by register_device)
    valResp,     \* HTTP response received for the validate request
    val,         \* main's local val (dict returned by validate_device)
    allowed,     \* main's local allowed
    inflight,    \* requests sent and not yet answered
    sent,        \* every request issued so far, in order
    hist,        \* the steps main() has taken so far, in order
    workload,    \* number of times run_langchain_example was started
    out          \* lines printed so far (stdout and stderr)

vars == <<pc, exit_code, org_env, dev_env, org_key, device_id, regResp, reg,
          valResp, val, allowed, inflight, sent, hist, workload, out>>

----------------------------------------------------------------------------
\* Bounds of the model

\* longest suffix after "org_" in the generated org keys
MaxKeySuffix == 9
\* most whitespace characters put around an environment value
MaxPad == 1
\* largest JSON number the remote authority puts in a field
MaxNum == 1

----------------------------------------------------------------------------
\* Program constants

ExitConfig == 2
ExitRegister == 1
\* variant: a deny leaves with the register-failure status
ExitDenied_as_failure == ExitRegister
ExitDenied == 0
ExitUncaught == 1
ExitNormal == 0
HttpErrorMin == 400
KeyLogLen == 12

----------------------------------------------------------------------------
\* JSON / Python values.  Every value has the same shape so that values of
\* different Python types can be compared: t is the type, and b, n, s, o hold
\* the payload of a bool, a number (or a list's length), a string, a dict.

EmptyObj == [k \in {} |-> 0]

JNull == [t |-> "null", b |-> FALSE, n |-> 0, s |-> "", o |-> EmptyObj]
JBool(x) == [t |-> "bool", b |-> x, n |-> 0, s |-> "", o |-> EmptyObj]
JNum(x) == [t |-> "num", b |-> FALSE, n |-> x, s |-> "", o |-> EmptyObj]
JStr(x) == [t |-> "str", b |-> FALSE, n |-> 0, s |-> x, o |-> EmptyObj]
JList(len) == [t |-> "list", b |-> FALSE, n |-> len, s |-> "", o |-> EmptyObj]
JObj(f) == [t |-> "dict", b |-> FALSE, n |-> 0, s |-> "", o |-> f]

IsDict(v) == v.t = "dict"

\* dict.get(k) and dict.get(k, default)
GetD(d, k, default) == IF k \in DOMAIN d.o THEN d.o[k] ELSE default
Get(d, k) == GetD(d, k, JNull)

\* Python truth value, bool(v)
Truthy(v) ==
    CASE v.t = "bool" -> v.b
      [] v.t = "null" -> FALSE
      [] v.t = "num"  -> v.n # 0
      [] v.t = "str"  -> v.s # ""
      [] v.t = "list" -> v.n > 0
      [] v.t = "dict" -> DOMAIN v.o # {}

----------------------------------------------------------------------------
\* Environment values: a variable is unset, or set to a string (a sequence of
\* one-character strings).

Unset == [set |-> FALSE, v |-> <<>>]
Some(s) == [set |-> TRUE, v |-> s]

IsSpace(c) == c \in {" ", "\t"}

RECURSIVE lstrip(_)
lstrip(s) == IF Len(s) > 0 /\ IsSpace(Head(s)) THEN lstrip(Tail(s)) ELSE s

RECURSIVE rstrip(_)
rstrip(s) ==
    IF Len(s) > 0 /\ IsSpace(s[Len(s)]) THEN rstrip(SubSeq(s, 1, Len(s) - 1))
    ELSE s

strip(s) == rstrip(lstrip(s))

\* env(name, default): raw is os.getenv(name)
env(raw, default) ==
    IF ~raw.set THEN default
    ELSE LET v == strip(raw.v) IN IF Len(v) > 0 THEN Some(v) ELSE default

\* Python truth value of a str | None
StrTruthy(v) == v.set /\ Len(v.v) > 0

\* variant: the last character of the prefix is not compared
startswith_short(s, prefix) ==
    /\ Len(s) >= Len(prefix) - 1
    /\ \A i \in 1..(Len(prefix) - 1) : s[i] = prefix[i]

\* s.startswith(prefix)
startswith(s, prefix) ==
    /\ Len(s) >= Len(prefix)
    /\ \A i \in 1..Len(prefix) : s[i] = prefix[i]

OrgPrefix == <<"o", "r", "g", "_">>
DefaultDeviceId ==
    <<"l", "a", "n", "g", "c", "h", "a", "i", "n", ":",
      "a", "g", "e", "n", "t", "-", "0", "1">>

Rep(c, n) == [i \in 1..n |-> c]


----------------------------------------------------------------------------
\* The inputs of a run: the environment, and what the remote authority
\* answers to each request.

PadSet == { Rep(" ", n) : n \in 0..MaxPad }

ValidKeys == { OrgPrefix \o Rep("k", n) : n \in 0..MaxKeySuffix }
MalformedKeys ==
    { <<>>, <<"o", "r", "g">>, <<"O", "R", "G", "_", "k">>,
      <<"x", "o", "r", "g", "_">>, <<"k", "e", "y">> }

OrgEnvValues ==
    {Unset} \cup { Some(p \o k \o p) : p \in PadSet, k \in ValidKeys \cup MalformedKeys }

DevEnvValues ==
    {Unset} \cup { Some(p \o d \o p) : p \in PadSet, d \in { <<>>, <<"d", "1">> } }

Field(k, vals) == { k :> v : v \in vals }
Opt(k, vals) == {EmptyObj} \cup Field(k, vals)

NumVals == { JNum(i) : i \in 0..MaxNum }
HttpOk == {200, 399}
HttpErr == {400, 503}
HttpCodes == HttpOk \cup HttpErr

StatusVals ==
    { JStr("ok"), JStr("exists"), JStr("limit_reached"), JStr("error"),
      JStr("pending"), JNull } \cup NumVals
SummaryOpts ==
    { EmptyObj,
      ("limit" :> JNum(MaxNum)) @@ ("devicesUsed" :> JNum(0)),
      ("planTier" :> JStr("free")) @@ ("limit" :> JNum(MaxNum))
          @@ ("devicesUsed" :> JNum(MaxNum)) @@ ("remaining" :> JNum(0)) }
ErrorVals == { JStr("boom"), JStr("") }

AllowedVals ==
    { JBool(TRUE), JBool(FALSE), JNull, JStr("false"), JStr("") } \cup NumVals
DiagOpts ==
    { EmptyObj,
      ("code" :> JStr("ok")) @@ ("request_id" :> JStr("r1")),
      ("reason" :> JStr("revoked")),
      ("code" :> JStr("denied")) @@ ("reason" :> JStr("revoked"))
          @@ ("request_id" :> JStr("r2")) }

\* a response: nothing came back (timeout, connection error), a body that
\* is not JSON, or a JSON body
NoResp == [kind |-> "none", http |-> 0, body |-> JNull]
Raise == [kind |-> "raise", http |-> 0, body |-> JNull]
Text(h) == [kind |-> "text", http |-> h, body |-> JNull]
Json(h, v) == [kind |-> "json", http |-> h, body |-> v]

NonDictBodies == { JList(0), JStr("ok"), JNull }

BrokenResponses ==
    {Raise} \cup { Text(h) : h \in HttpCodes }
            \cup { Json(h, v) : h \in HttpCodes, v \in NonDictBodies }

RegResponses ==
    BrokenResponses
    \cup { Json(h, JObj(a @@ b)) :
             h \in HttpOk, a \in Opt("status", StatusVals), b \in SummaryOpts }
    \cup { Json(h, JObj(a @@ b)) :
             h \in HttpErr,
             a \in Opt("status", {JStr("ok"), JStr("error")}),
             b \in Opt("error", ErrorVals) }

ValResponses ==
    BrokenResponses
    \cup { Json(h, JObj(a @@ b)) :
             h \in HttpOk, a \in Opt("allowed", AllowedVals), b \in DiagOpts }
    \cup { Json(h, JObj(a @@ b)) :
             h \in HttpErr,
             a \in Opt("allowed", {JBool(TRUE)}),
             b \in Opt("error", ErrorVals) }

----------------------------------------------------------------------------
\* post_json: the result is an exception or the returned value

Raised == [raised |-> TRUE, data |-> JNull]
Ret(v) == [raised |-> FALSE, data |-> v]

\* variant: a status code >= 400 is not normalised, the body is returned
post_json_unnormalised(resp) ==
    IF resp.kind # "json" THEN Raised ELSE Ret(resp.body)

\* variant: a status code >= 400 raises, as resp.raise_for_status() would
post_json_raise_for_status(resp) ==
    IF resp.kind # "json" \/ resp.http >= HttpErrorMin THEN Raised
    ELSE Ret(resp.body)

\* variant: the comparison is > 400, so a status of exactly 400 passes
post_json_above(resp) ==
    IF resp.kind # "json" THEN Raised
    ELSE IF resp.http > HttpErrorMin THEN
        IF IsDict(resp.body) /\ Truthy(Get(resp.body, "error")) THEN
            Ret(JObj(("status" :> JStr("error"))
                     @@ ("error" :> Get(resp.body, "error"))
                     @@ ("http" :> JNum(resp.http))))
        ELSE
            Ret(JObj(("status" :> JStr("error"))
                     @@ ("error" :> JStr("HTTP " \o ToString(resp.http)))
                     @@ ("http" :> JNum(resp.http))
                     @@ ("body" :> resp.body)))
    ELSE Ret(resp.body)

post_json(resp) ==
    IF resp.kind # "json" THEN Raised
    ELSE IF resp.http >= HttpErrorMin THEN
        IF IsDict(resp.body) /\ Truthy(Get(resp.body, "error")) THEN
            Ret(JObj(("status" :> JStr("error"))
                     @@ ("error" :> Get(resp.body, "error"))
                     @@ ("http" :> JNum(resp.http))))
        ELSE
            Ret(JObj(("status" :> JStr("error"))
                     @@ ("error" :> JStr("HTTP " \o ToString(resp.http)))
                     @@ ("http" :> JNum(resp.http))
                     @@ ("body" :> resp.body)))
    ELSE Ret(resp.body)

REGISTER_URL == "/api/v1/devices/register"
VALIDATE_URL == "/api/v1/devices/validate"

\* variant: validate always names the default device
Request_default_device(endpoint, key, dev) ==
    [endpoint |-> endpoint, x_org_key |-> key,
     content_type |-> "application/json",
     deviceId |-> (IF endpoint = VALIDATE_URL THEN DefaultDeviceId ELSE dev)]

\* the request register_device and validate_device build
Request(endpoint, key, dev) ==
    [endpoint |-> endpoint, x_org_key |-> key,
     content_type |-> "application/json", deviceId |-> dev]

\* a printed line: what it is, the text it shows, the value it shows
Line(ev, txt, v) == [ev |-> ev, txt |-> txt, v |-> v]
NoText == <<>>

\* the character appended to the logged key prefix (U+2026)
Ellipsis == "..."

\* org_key[:12]
Prefix(s, n) == SubSeq(s, 1, IF Len(s) < n THEN Len(s) ELSE n)

\* variant: every status but "error" lets the run go on
ProceedEligible_lenient(reg_status) ==
    reg_status.t = "str" /\ reg_status.s # "error"

\* variant: only "ok" lets the run go on
ProceedEligible_only_ok(reg_status) ==
    reg_status.t = "str" /\ reg_status.s = "ok"

\* reg_status in ("ok", "exists")
ProceedEligible(reg_status) ==
    reg_status.t = "str" /\ reg_status.s \in {"ok", "exists"}

\* variant: a plan with nothing remaining stops the run as well
MayProceed_quota(r) ==
    ProceedEligible(Get(r, "status")) /\ Get(r, "remaining") # JNum(0)

\* main, lines 141 and 152: reg_status = reg.get("status") decides alone
MayProceed(r) == ProceedEligible(Get(r, "status"))

\* variant: a missing "allowed" defaults to True
AllowedOf_default_true(v) == Truthy(GetD(v, "allowed", JBool(TRUE)))

\* bool(val.get("allowed", False))
AllowedOf(v) == Truthy(GetD(v, "allowed", JBool(FALSE)))

\* the lines of the registration summary: a field is shown when not None
SummaryLines(r) ==
    LET show(k) == IF Get(r, k) # JNull THEN <<Line(k, NoText, Get(r, k))>> ELSE <<>>
    IN <<Line("registration_summary", NoText, JNull)>>
       \o show("planTier") \o show("limit") \o show("devicesUsed")

----------------------------------------------------------------------------
Init ==
    /\ pc = "start"
    /\ exit_code = -1
    /\ org_env \in OrgEnvValues
    /\ dev_env \in DevEnvValues
    /\ org_key = <<>>
    /\ device_id = <<>>
    /\ regResp = NoResp
    /\ reg = JNull
    /\ valResp = NoResp
    /\ val = JNull
    /\ allowed = FALSE
    /\ inflight = {}
    /\ sent = <<>>
    /\ hist = <<>>
    /\ workload = 0
    /\ out = <<>>

\* the process ends with exit status c
Exit(c) ==
    /\ pc' = "done"
    /\ exit_code' = c

\* main, lines 125-137: load and check the configuration
LoadConfig ==
    /\ pc = "start"
    /\ hist' = Append(hist, "config")
    /\ LET k == env(org_env, Unset)
           d == env(dev_env, Some(DefaultDeviceId))
       IN IF ~StrTruthy(k) THEN
              /\ Exit(ExitConfig)
              /\ out' = Append(out, Line("fatal_missing_env", NoText, JNull))
              /\ UNCHANGED <<org_key, device_id>>
          ELSE
              /\ org_key' = k.v
              /\ device_id' = (IF StrTruthy(d) THEN d.v ELSE DefaultDeviceId)
              /\ IF ~startswith(k.v, OrgPrefix) THEN
                     /\ Exit(ExitConfig)
                     /\ out' = Append(out, Line("fatal_bad_prefix", NoText, JNull))
                 ELSE
                     /\ pc' = "configured"
                     /\ out' = out \o
                          << Line("key_loaded", Prefix(k.v, KeyLogLen) \o <<Ellipsis>>, JNull),
                             Line("device_id", device_id', JNull) >>
                     /\ UNCHANGED exit_code
    /\ UNCHANGED <<org_env, dev_env, regResp, reg, valResp, val, allowed,
                   inflight, sent, workload>>

\* register_device, lines 65-69: the request goes out
RegisterSend ==
    /\ pc = "configured"
    /\ pc' = "registering"
    /\ LET rq == Request(REGISTER_URL, org_key, device_id)
       IN /\ inflight' = inflight \cup {rq}
          /\ sent' = Append(sent, rq)
    /\ hist' = Append(hist, "register_send")
    /\ out' = Append(out, Line("registering", device_id, JNull))
    /\ UNCHANGED <<exit_code, org_env, dev_env, org_key, device_id, regResp, reg,
                   valResp, val, allowed, workload>>

\* post_json returns or raises in register_device; main, lines 140-155
RegisterReturn ==
    /\ pc = "registering"
    /\ \E resp \in RegResponses :
         LET r == post_json(resp)
         IN /\ regResp' = resp
            /\ IF r.raised \/ ~IsDict(r.data) THEN
                   \* uncaught exception: requests' error, the JSON error
                   \* re-raised at line 50, or data.get on a non-dict (line 71)
                   /\ Exit(ExitUncaught)
                   /\ out' = (IF resp.kind = "text"
                              THEN Append(out, Line("parse_error", NoText, JNum(resp.http)))
                              ELSE out)
                   /\ UNCHANGED reg
               ELSE
                   /\ reg' = r.data
                   /\ IF ~MayProceed(r.data) THEN
                          /\ Exit(ExitRegister)
                          /\ out' = (Append(out, Line("register_status", NoText,
                                                      Get(r.data, "status")))
                                     \o SummaryLines(r.data))
                                    \o <<Line("register_failed", NoText, JNull)>>
                      ELSE
                          /\ pc' = "registered"
                          /\ out' = Append(out, Line("register_status", NoText,
                                                     Get(r.data, "status")))
                                    \o SummaryLines(r.data)
                          /\ UNCHANGED exit_code
    /\ inflight' = {}
    /\ hist' = Append(hist, "register_return")
    /\ UNCHANGED <<org_env, dev_env, org_key, device_id, valResp, val, allowed,
                   sent, workload>>

\* time.sleep(1), line 158: the wait begins ...
SleepStart ==
    /\ pc = "registered"
    /\ pc' = "wait"
    /\ hist' = Append(hist, "sleep_start")
    /\ UNCHANGED <<exit_code, org_env, dev_env, org_key, device_id, regResp, reg,
                   valResp, val, allowed, inflight, sent, workload, out>>

\* variant: when the wait elapses the run goes back to wait again
SleepEnd_again ==
    /\ pc = "wait"
    /\ pc' = "registered"
    /\ hist' = Append(hist, "sleep_end")
    /\ UNCHANGED <<exit_code, org_env, dev_env, org_key, device_id, regResp, reg,
                   valResp, val, allowed, inflight, sent, workload, out>>

\* ... and elapses
SleepEnd ==
    /\ pc = "wait"
    /\ pc' = "slept"
    /\ hist' = Append(hist, "sleep_end")
    /\ UNCHANGED <<exit_code, org_env, dev_env, org_key, device_id, regResp, reg,
                   valResp, val, allowed, inflight, sent, workload, out>>

\* validate_device, lines 79-83: the request goes out
ValidateSend ==
    /\ pc = "slept"
    /\ pc' = "validating"
    /\ LET rq == Request(VALIDATE_URL, org_key, device_id)
       IN /\ inflight' = inflight \cup {rq}
          /\ sent' = Append(sent, rq)
    /\ hist' = Append(hist, "validate_send")
    /\ out' = Append(out, Line("validating", device_id, JNull))
    /\ UNCHANGED <<exit_code, org_env, dev_env, org_key, device_id, regResp, reg,
                   valResp, val, allowed, workload>>

\* the lines validate_device (line 88) and main (lines 165-168) print
DecisionLines(v, a) ==
    << Line("decision_allowed", NoText, Get(v, "allowed")),
       Line("decision_code", NoText, Get(v, "code")),
       Line("decision_request_id", NoText, Get(v, "request_id")),
       Line("summary_allowed", NoText, JBool(a)),
       Line("summary_code", NoText, Get(v, "code")),
       Line("summary_request_id", NoText, Get(v, "request_id")) >>

\* variant: a deny is answered by validating again
ValidateReturn_retry ==
    /\ pc = "validating"
    /\ \E resp \in ValResponses :
         LET r == post_json(resp)
             failed == r.raised \/ ~IsDict(r.data)
             go == ~failed /\ AllowedOf(r.data)
         IN /\ valResp' = resp
            /\ val' = (IF failed THEN val ELSE r.data)
            /\ allowed' = (IF failed THEN allowed ELSE go)
            /\ pc' = (IF failed THEN "done" ELSE IF go THEN "running" ELSE "slept")
            /\ exit_code' = (IF failed THEN ExitUncaught ELSE exit_code)
            /\ workload' = (IF go THEN workload + 1 ELSE workload)
            /\ out' = (IF failed THEN out ELSE out \o DecisionLines(r.data, go))
    /\ inflight' = {}
    /\ hist' = Append(hist, "validate_return")
    /\ UNCHANGED <<org_env, dev_env, org_key, device_id, regResp, reg, sent>>

\* post_json returns or raises in validate_device; main, lines 159-177
ValidateReturn ==
    /\ pc = "validating"
    /\ \E resp \in ValResponses :
         LET r == post_json(resp)
         IN /\ valResp' = resp
            /\ IF r.raised \/ ~IsDict(r.data) THEN
                   \* uncaught exception, as in RegisterReturn (data.get: line 85)
                   /\ Exit(ExitUncaught)
                   /\ out' = (IF resp.kind = "text"
                              THEN Append(out, Line("parse_error", NoText, JNum(resp.http)))
                              ELSE out)
                   /\ UNCHANGED <<val, allowed, workload>>
               ELSE
                   /\ val' = r.data
                   /\ allowed' = AllowedOf(r.data)
                   /\ IF ~allowed' THEN
                          /\ Exit(ExitDenied)
                          /\ out' = Append(out \o DecisionLines(r.data, allowed'),
                                           Line("denied", NoText, JNull))
                          /\ UNCHANGED workload
                      ELSE
                          \* run_langchain_example() is called
                          /\ pc' = "running"
                          /\ workload' = workload + 1
                          /\ out' = Append(out \o DecisionLines(r.data, allowed'),
                                           Line("allowed", NoText, JNull))
                          /\ UNCHANGED exit_code
    /\ inflight' = {}
    /\ hist' = Append(hist, "validate_return")
    /\ UNCHANGED <<org_env, dev_env, org_key, device_id, regResp, reg, sent>>

\* run_langchain_example returns; main prints the result and returns
WorkloadReturn ==
    /\ pc = "running"
    /\ Exit(ExitNormal)
    /\ hist' = Append(hist, "workload_return")
    /\ out' = Append(out, Line("done", NoText, JNull))
    /\ UNCHANGED <<org_env, dev_env, org_key, device_id, regResp, reg, valResp,
                   val, allowed, inflight, sent, workload>>

\* run_langchain_example raises (the model call fails): uncaught
WorkloadRaise ==
    /\ pc = "running"
    /\ Exit(ExitUncaught)
    /\ hist' = Append(hist, "workload_raise")
    /\ UNCHANGED <<org_env, dev_env, org_key, device_id, regResp, reg, valResp,
                   val, allowed, inflight, sent, workload, out>>

Next ==
    \/ LoadConfig
    \/ RegisterSend
    \/ RegisterReturn
    \/ SleepStart
    \/ SleepEnd
    \/ ValidateSend
    \/ ValidateReturn
    \/ WorkloadReturn
    \/ WorkloadRaise

Spec == Init /\ [][Next]_vars

\* the steps of the gate, up to its decision
GateStep ==
    \/ LoadConfig
    \/ RegisterSend
    \/ RegisterReturn
    \/ SleepStart
    \/ SleepEnd
    \/ ValidateSend
    \/ ValidateReturn

\* main is one sequential process that keeps running: each request is
\* answered or fails at its timeout (timeout_s, line 42) and time.sleep(1)
\* returns, so a gate step that can be taken is taken
FairSpec == Spec /\ WF_vars(GateStep)

----------------------------------------------------------------------------
\* Properties

\* the requests sent to one endpoint
SentTo(url) == { i \in DOMAIN sent : sent[i].endpoint = url }

\* a JSON object answered with a status code below 400
WellFormed(resp) ==
    resp.kind = "json" /\ resp.http < 400 /\ resp.body.t = "dict"

\* field k of a response body that is an object, null when it has none
BodyField(resp, k) ==
    IF resp.body.t = "dict" /\ k \in DOMAIN resp.body.o THEN resp.body.o[k] ELSE JNull

Stopped == pc = "done"
Fatal == Stopped /\ exit_code > 0

\* C1: the workload is started only if the validate response carried an
\* `allowed` field, and never when that field is false or absent.
C1_FailClosedGate ==
    workload > 0 =>
        /\ valResp.kind = "json"
        /\ valResp.body.t = "dict"
        /\ "allowed" \in DOMAIN valResp.body.o
        /\ valResp.body.o["allowed"] # JBool(FALSE)

\* a validate response without `allowed` was received and the run ended
\* without the workload
C1_Witness ==
    /\ Stopped
    /\ WellFormed(valResp)
    /\ "allowed" \notin DOMAIN valResp.body.o
    /\ workload = 0

\* C2: the workload runs (the gate is ALLOWED) only when `allowed` is the
\* boolean true; every other value ends in DENIED without the workload.
C2_OnlyBooleanTrueAllows ==
    workload > 0 => BodyField(valResp, "allowed") = JBool(TRUE)

\* C3: validate is sent only after register has returned with a status in
\* {ok, exists} and the wait has elapsed, and the two requests are never in
\* flight together.
C3_RegisterBeforeValidate ==
    /\ Cardinality(inflight) <= 1
    /\ \A i \in DOMAIN hist :
         hist[i] = "validate_send" =>
           /\ \E j \in 1..(i - 1) :
                /\ hist[j] = "register_return"
                /\ \E k \in (j + 1)..(i - 1) : hist[k] = "sleep_end"
           /\ regResp.kind = "json"
           /\ reg.t = "dict"
           /\ "status" \in DOMAIN reg.o
           /\ reg.o["status"] \in {JStr("ok"), JStr("exists")}

\* the validate request is in flight
C3_Witness ==
    /\ pc = "validating"
    /\ \E rq \in inflight : rq.endpoint = VALIDATE_URL

\* C4: a register status of limit_reached ends the run with exit code 0,
\* without a validate call and without the workload.
C4_LimitReachedExitsZero ==
    (WellFormed(regResp) /\ BodyField(regResp, "status") = JStr("limit_reached")) =>
        /\ Stopped
        /\ exit_code = 0
        /\ SentTo(VALIDATE_URL) = {}
        /\ workload = 0

\* C5: after a proceed-eligible register, a well-formed validate response
\* with allowed=false ends the run with exit code 0 and without the workload.
C5_DeniedExitsZero ==
    (WellFormed(valResp) /\ BodyField(valResp, "allowed") = JBool(FALSE)) =>
        /\ Stopped
        /\ exit_code = 0
        /\ workload = 0

\* register answered ok, validate answered allowed=false with a reason, and
\* the run has ended
C5_Witness ==
    /\ Stopped
    /\ BodyField(regResp, "status") = JStr("ok")
    /\ WellFormed(valResp)
    /\ BodyField(valResp, "allowed") = JBool(FALSE)
    /\ BodyField(valResp, "reason") = JStr("revoked")

\* the register call failed: no answer, a body that is not JSON, a status
\* code >= 400, or a status outside {ok, exists, limit_reached}
RegisterFailed ==
    \/ regResp.kind \in {"raise", "text"}
    \/ /\ regResp.kind = "json"
       /\ \/ regResp.http >= 400
          \/ BodyField(regResp, "status") \notin
                 {JStr("ok"), JStr("exists"), JStr("limit_reached")}

\* C6: any failure of the register call ends the run with a non-zero exit
\* code, without a validate call and without the workload.
C6_RegisterFailureIsFatal ==
    RegisterFailed =>
        /\ Fatal
        /\ SentTo(VALIDATE_URL) = {}
        /\ workload = 0

\* the register call got no answer and the run has ended
C6_Witness ==
    /\ regResp = Raise
    /\ Stopped
    /\ Len(sent) = 1

\* the validate call failed: no answer, a body that is not JSON, or a status
\* code >= 400
ValidateFailed ==
    \/ valResp.kind \in {"raise", "text"}
    \/ valResp.kind = "json" /\ valResp.http >= 400

\* C7: every error during the validate call ends the run as a deny, with
\* exit code 0 and without the workload.
C7_ValidateErrorIsDeny ==
    ValidateFailed =>
        /\ Stopped
        /\ exit_code = 0
        /\ workload = 0

\* the org credential is missing, blank, or does not start with org_ (the
\* configuration reads it with the surrounding whitespace removed)
BadCredential ==
    \/ ~org_env.set
    \/ LET v == strip(org_env.v)
       IN \/ Len(v) = 0
          \/ Len(v) < 4
          \/ SubSeq(v, 1, 4) # <<"o", "r", "g", "_">>

\* C8: with a bad org credential the run stops with a non-zero exit code
\* and no request is ever issued.
C8_BadCredentialNoNetwork ==
    BadCredential =>
        /\ sent = <<>>
        /\ inflight = {}
        /\ pc \in {"start", "done"}
        /\ Stopped => exit_code > 0

\* the credential was "org" and the run has ended
C8_Witness ==
    /\ org_env.set
    /\ strip(org_env.v) = <<"o", "r", "g">>
    /\ Stopped

\* C9: a register outcome of ok or exists lets the run go on to validate,
\* and with a validate decision of allowed=true the workload is run.
C9_OkOrExistsThenAllowed ==
    /\ (reg.t = "dict" /\ Get(reg, "status") \in {JStr("ok"), JStr("exists")}) =>
          \/ pc \in {"registered", "wait", "slept", "validating", "running"}
          \/ Stopped /\ valResp.kind # "none"
    /\ (val.t = "dict" /\ Get(val, "allowed") = JBool(TRUE)) =>
          /\ allowed
          /\ workload = 1
          /\ pc = "running" \/ (Stopped /\ "validate_return" # hist[Len(hist)])

\* register answered exists, validate answered allowed=true, the workload ran
C9_Witness ==
    /\ Get(reg, "status") = JStr("exists")
    /\ Get(val, "allowed") = JBool(TRUE)
    /\ workload = 1
    /\ Stopped
    /\ exit_code = 0


\* C11: the org credential is never printed in full: what is printed of it
\* is a strict prefix, shorter than the credential.
C11_KeyNeverLoggedInFull ==
    \A i \in DOMAIN out :
        out[i].ev = "key_loaded" =>
            LET shown == SubSeq(out[i].txt, 1, Len(out[i].txt) - 1)
            IN /\ Len(shown) < Len(org_key)
               /\ shown = SubSeq(org_key, 1, Len(shown))

\* the gate has decided: the workload was started or the process has ended
GateDecided == pc \in {"running", "done"}

\* C12: register and validate are each called at most once, and once the
\* gate has decided no earlier state is entered again.
C12_NoRetryNoReentry ==
    /\ [](/\ Cardinality(SentTo(REGISTER_URL)) <= 1
          /\ Cardinality(SentTo(VALIDATE_URL)) <= 1)
    /\ [][GateDecided =>
            pc' \notin {"start", "configured", "registering", "registered",
                        "wait", "slept", "validating"}]_vars

\* validate answered with a deny and the run has ended after one call of each
C12_Witness ==
    /\ Stopped
    /\ exit_code = 0
    /\ workload = 0
    /\ Cardinality(SentTo(REGISTER_URL)) = 1
    /\ Cardinality(SentTo(VALIDATE_URL)) = 1
    /\ hist[Len(hist)] = "validate_return"


\* data is a structured error object for resp: it carries the HTTP status
\* and, when the server gave a non-empty error message, that message
CarriesError(resp, data) ==
    /\ data.t = "dict"
    /\ Get(data, "http") = JNum(resp.http)
    /\ LET e == BodyField(resp, "error")
       IN (e.t = "str" /\ e.s # "") => Get(data, "error") = e

\* C13: for every response with a status code >= 400, whatever its body
\* (JSON or not), post_json does not raise and returns a structured error.
C13_ErrorStatusNeverRaises ==
    /\ (regResp.kind \in {"json", "text"} /\ regResp.http >= 400) =>
          CarriesError(regResp, reg)
    /\ (valResp.kind \in {"json", "text"} /\ valResp.http >= 400) =>
          CarriesError(valResp, val)

\* C13, amended: for every response with a status code >= 400 whose body is
\* JSON, post_json returns a structured error object with the HTTP status
\* and the server's error message; a body that is not JSON makes post_json
\* raise, and the run ends with a non-zero exit code.
C13_JsonErrorStatusNormalised ==
    /\ (regResp.kind = "json" /\ regResp.http >= 400) => CarriesError(regResp, reg)
    /\ (valResp.kind = "json" /\ valResp.http >= 400) => CarriesError(valResp, val)
    /\ regResp.kind = "text" => (reg = JNull /\ Fatal)
    /\ valResp.kind = "text" => (val = JNull /\ Fatal)

\* register was answered 503 with an error message, which reg carries
C13_Witness ==
    /\ regResp.kind = "json"
    /\ regResp.http = 503
    /\ BodyField(regResp, "error") = JStr("boom")
    /\ Get(reg, "error") = JStr("boom")
    /\ Get(reg, "http") = JNum(503)

\* C18: a register response with a status code >= 400 is never
\* proceed-eligible, whatever its JSON body says: its status becomes
\* "error", the run stops with a non-zero exit code, validate is not called.
C18_ErrorStatusNeverProceeds ==
    (regResp.kind = "json" /\ regResp.http >= 400) =>
        /\ Get(reg, "status") = JStr("error")
        /\ Fatal
        /\ SentTo(VALIDATE_URL) = {}
        /\ workload = 0

\* register was answered 400 with a body saying status ok, and the run ended
C18_Witness ==
    /\ regResp.kind = "json"
    /\ regResp.http = 400
    /\ BodyField(regResp, "status") = JStr("ok")
    /\ Stopped


\* the steps of a run, in the only order main takes them
StepOrder ==
    << "config", "register_send", "register_return", "sleep_start",
       "sleep_end", "validate_send", "validate_return" >>

\* hist follows StepOrder, with the end of the workload as a last step
InStepOrder ==
    /\ Len(hist) <= Len(StepOrder) + 1
    /\ \A i \in DOMAIN hist :
         IF i <= Len(StepOrder) THEN hist[i] = StepOrder[i]
         ELSE hist[i] \in {"workload_return", "workload_raise"}

\* C14: the registration summary fields do not influence control flow: the
\* transitions, the final state and the exit code are a function of the
\* register response's status and of the validate response alone.
C14_SummaryDoesNotSteer ==
    /\ InStepOrder
    /\ (regResp.kind = "json" /\ regResp.http < 400 /\ regResp.body.t = "dict") =>
          IF BodyField(regResp, "status") \in {JStr("ok"), JStr("exists")}
          THEN ~(Stopped /\ valResp.kind = "none")
          ELSE Stopped /\ exit_code = 1 /\ sent[Len(sent)].endpoint = REGISTER_URL
    /\ valResp.kind # "none" =>
          IF valResp.kind # "json" \/ (valResp.http < 400 /\ valResp.body.t # "dict")
          THEN Stopped /\ exit_code = 1 /\ workload = 0
          ELSE IF /\ valResp.http < 400
                  /\ BodyField(valResp, "allowed") \notin
                         {JNull, JBool(FALSE), JStr(""), JNum(0)}
               THEN workload = 1 /\ (pc = "running" \/ (Stopped /\ Len(hist) = 8))
               ELSE Stopped /\ exit_code = 0 /\ workload = 0

\* register answered ok with a summary that says nothing remains, and the
\* run went on to an allowed validate and the workload
C14_Witness ==
    /\ BodyField(regResp, "status") = JStr("ok")
    /\ BodyField(regResp, "remaining") = JNum(0)
    /\ BodyField(regResp, "planTier") = JStr("free")
    /\ workload = 1
    /\ Stopped


\* the printed lines that show a field of the validation decision
DecisionShown ==
    { out[i].v : i \in { j \in DOMAIN out :
                           out[j].ev \in {"decision_code", "decision_request_id",
                                          "summary_code", "summary_request_id"} } }

\* C15: whenever a validation decision is obtained, the code or reason the
\* server gave and the request id are printed, whatever `allowed` is; a
\* decision that carries only `reason` has that reason printed.
C15_DiagnosticsSurfaced ==
    (WellFormed(valResp) /\ val.t = "dict") =>
        LET given(k) == k \in DOMAIN valResp.body.o
        IN /\ given("request_id") => BodyField(valResp, "request_id") \in DecisionShown
           /\ (given("code") \/ given("reason")) =>
                 \/ given("code") /\ BodyField(valResp, "code") \in DecisionShown
                 \/ given("reason") /\ BodyField(valResp, "reason") \in DecisionShown


\* the credential and the device identifier the configuration yields
ConfiguredKey == strip(org_env.v)
ConfiguredDevice ==
    IF dev_env.set /\ Len(strip(dev_env.v)) > 0 THEN strip(dev_env.v)
    ELSE DefaultDeviceId

\* C16: the validate request carries the same org credential (x-org-key) and
\* device identifier (deviceId) as the register request, and neither value
\* changes between configuration loading and the end of the run.
C16_SameIdentityOnBothRequests ==
    /\ [](/\ \A i, j \in DOMAIN sent :
               /\ sent[i].x_org_key = sent[j].x_org_key
               /\ sent[i].deviceId = sent[j].deviceId
          /\ \A i \in DOMAIN sent :
               /\ sent[i].x_org_key = ConfiguredKey
               /\ sent[i].deviceId = ConfiguredDevice
               /\ org_key = ConfiguredKey
               /\ device_id = ConfiguredDevice)
    /\ [][pc # "start" => (org_key' = org_key /\ device_id' = device_id)]_vars

\* both requests were sent for the device d1 read from the environment
C16_Witness ==
    /\ Len(sent) = 2
    /\ sent[1].endpoint = REGISTER_URL
    /\ sent[2].endpoint = VALIDATE_URL
    /\ sent[1].deviceId = <<"d", "1">>
    /\ sent[2].deviceId = <<"d", "1">>
    /\ sent[2].x_org_key = sent[1].x_org_key
    /\ Stopped


\* the gate's two final states
GateAllowed == workload > 0 /\ pc \in {"running", "done"}
GateDenied == Stopped /\ workload = 0

\* C17: every run eventually reaches exactly one of ALLOWED and DENIED,
\* never both, and takes its steps only in the order config, register, wait,
\* validate.
C17_GateTerminates ==
    /\ <>(GateAllowed \/ GateDenied)
    /\ []InStepOrder
    /\ [](GateAllowed \/ GateDenied => GateDecided)
    /\ [][GateAllowed => ~GateDenied']_vars
    /\ [][GateDenied => (GateDenied' /\ ~GateAllowed')]_vars

\* a run that went through every step and ended after the workload
C17_Witness ==
    /\ Stopped
    /\ GateAllowed
    /\ Len(hist) = Len(StepOrder) + 1

====
